---- MODULE Spec2Model ----
(***************************************************************************)
(* Model of the adaptive retrieval workflow of IAMI                        *)
(* (graphrag/agents/nodes.py, graphrag/agents/retrieval_workflow.py).      *)
(*                                                                         *)
(* Encoding conventions                                                    *)
(*  - A query is a sequence of symbols.  A symbol stands for one Chinese   *)
(*    character (written in pinyin: "xing","ge" is the word xingge) or for *)
(*    one English word in a given letter case.  A keyword is a sequence of *)
(*    symbols and `keyword in query_lower` is contiguous containment.      *)
(*  - Python dicts are functions with a string domain; d.get(k, default)   *)
(*    is Get(d, k, default), so an absent key is visible to the model.     *)
(*  - A distance score d returned by the vector store is the rational      *)
(*    d / ScoreUnit; a relevance score is a pair <<num, den>> of integers  *)
(*    compared by cross multiplication.                                    *)
(*  - The user-visible messages are transliterated to ASCII.               *)
(***************************************************************************)
EXTENDS Integers, Sequences, FiniteSets, TLC

VARIABLES
    pc,        \* position of the workflow run inside AdaptiveRAGAgent.query
    state,     \* the RetrievalState dict handed from node to node
    result,    \* the dict returned by AdaptiveRAGAgent.query
    history,   \* observation: node begin/end and external calls, in order
    logs       \* observation: records written through logger

vars == <<pc, state, result, history, logs>>

----------------------------------------------------------------------------
(* Bounds of the model                                                     *)

MaxQueryLen == 2
MaxHits == 2

\* symbols a query is built from: two English keywords in upper case and
\* the two characters of xingge, which is a keyword only in this order
Alphabet == {"xing", "ge", "Personality", "Recently"}

\* distances the vector store answers with, in units of 1/ScoreUnit:
\* 0, 1/9 (relevance exactly 0.9), just below 1.5, exactly 1.5
ScoreUnit == 18
Scores == {0, 2, 26, 27}

\* text the structured store and the LLM answer with, exception texts
StoreTexts == {"", "graph answer"}
LLMTexts == {"", "You discussed GraphRAG."}
ExcTexts == {"boom"}

----------------------------------------------------------------------------
(* Generic helpers                                                         *)

Get(d, k, default) == IF k \in DOMAIN d THEN d[k] ELSE default

\* the empty dict {}
EmptyDict == [k \in {} |-> TRUE]

SeqsUpTo(S, n) == UNION {[1..m -> S] : m \in 0..n}

Take(s, n) == SubSeq(s, 1, IF Len(s) < n THEN Len(s) ELSE n)

----------------------------------------------------------------------------
(* plan_query_node                                                         *)

\* str.lower() on one symbol
LowerSym(c) ==
    CASE c = "Recently" -> "recently"
      [] c = "Personality" -> "personality"
      [] OTHER -> c

Lower(q) == [i \in 1..Len(q) |-> LowerSym(q[i])]

\* `keyword in text` for strings: contiguous containment
Contains(text, keyword) ==
    \E i \in 0..(Len(text) - Len(keyword)) :
        \A j \in 1..Len(keyword) : text[i + j] = keyword[j]

structured_keywords ==
    << <<"xing", "ge">>, <<"personality">>, <<"jia", "zhi", "guan">>, <<"values">>,
       <<"si", "wei">>, <<"thinking">>, <<"guan", "xi">>, <<"relationship">>,
       <<"ren", "ji">>, <<"social">>, <<"te", "zheng">>, <<"traits">> >>

temporal_keywords ==
    << <<"zui", "jin">>, <<"recently">>, <<"dui", "hua">>, <<"conversation">>,
       <<"shuo", "guo">>, <<"mentioned">>, <<"tao", "lun">>, <<"discussed">> >>

AnyKeywordIn(keywords, text) ==
    \E n \in 1..Len(keywords) : Contains(text, keywords[n])

\* result of running a node: the state it returns, whether it raised
\* instead, the external calls it made and the log records it wrote
NodeResult(s, raised, calls, logged) ==
    [state |-> s, raised |-> raised, calls |-> calls, logs |-> logged]

\* faulty variant: the temporal rule is an elif of the structured rule
plan_query_node_elif(s) ==
    LET query_lower == Lower(s.query)
        plan0 == [use_lightrag |-> TRUE, use_chromadb |-> TRUE,
                  lightrag_mode |-> "hybrid", chromadb_k |-> 5]
        plan2 == IF AnyKeywordIn(structured_keywords, query_lower)
                 THEN [plan0 EXCEPT !.lightrag_mode = "local"]
                 ELSE IF AnyKeywordIn(temporal_keywords, query_lower)
                 THEN [plan0 EXCEPT !.chromadb_k = 10, !.use_lightrag = FALSE]
                 ELSE plan0
    IN NodeResult([s EXCEPT !.query_plan = plan2], FALSE, <<>>, <<>>)

\* faulty variant: the first character of the query is read, which raises
\* on the empty query
plan_query_node_first_char(s) ==
    LET plan0 == [use_lightrag |-> TRUE, use_chromadb |-> TRUE,
                  lightrag_mode |-> "hybrid", chromadb_k |-> 5]
        plan1 == IF AnyKeywordIn(structured_keywords, Lower(s.query))
                 THEN [plan0 EXCEPT !.lightrag_mode = "local"]
                 ELSE plan0
        plan2 == IF AnyKeywordIn(temporal_keywords, Lower(s.query))
                 THEN [plan1 EXCEPT !.chromadb_k = 10, !.use_lightrag = FALSE]
                 ELSE plan1
    IN IF s.query = <<>>
       THEN NodeResult(s, TRUE, <<>>, <<>>)
       ELSE NodeResult([s EXCEPT !.query_plan = plan2], FALSE, <<>>, <<>>)

\* faulty variant: the keywords are looked for in the query as typed
plan_query_node_case_sensitive(s) ==
    LET plan0 == [use_lightrag |-> TRUE, use_chromadb |-> TRUE,
                  lightrag_mode |-> "hybrid", chromadb_k |-> 5]
        plan1 == IF AnyKeywordIn(structured_keywords, s.query)
                 THEN [plan0 EXCEPT !.lightrag_mode = "local"]
                 ELSE plan0
        plan2 == IF AnyKeywordIn(temporal_keywords, s.query)
                 THEN [plan1 EXCEPT !.chromadb_k = 10, !.use_lightrag = FALSE]
                 ELSE plan1
    IN NodeResult([s EXCEPT !.query_plan = plan2], FALSE, <<>>, <<>>)

\* faulty variant: a structured query that is not temporal turns the vector
\* store off
plan_query_node_structured_only(s) ==
    LET query_lower == Lower(s.query)
        plan0 == [use_lightrag |-> TRUE, use_chromadb |-> TRUE,
                  lightrag_mode |-> "hybrid", chromadb_k |-> 5]
        plan1 == IF AnyKeywordIn(structured_keywords, query_lower)
                 THEN [plan0 EXCEPT !.lightrag_mode = "local", !.use_chromadb = FALSE]
                 ELSE plan0
        plan2 == IF AnyKeywordIn(temporal_keywords, query_lower)
                 THEN [plan1 EXCEPT !.chromadb_k = 10, !.use_lightrag = FALSE,
                                    !.use_chromadb = TRUE]
                 ELSE plan1
    IN NodeResult([s EXCEPT !.query_plan = plan2], FALSE, <<>>, <<>>)

plan_query_node(s) ==
    LET query_lower == Lower(s.query)
        plan0 == [use_lightrag |-> TRUE, use_chromadb |-> TRUE,
                  lightrag_mode |-> "hybrid", chromadb_k |-> 5]
        plan1 == IF AnyKeywordIn(structured_keywords, query_lower)
                 THEN [plan0 EXCEPT !.lightrag_mode = "local"]
                 ELSE plan0
        plan2 == IF AnyKeywordIn(temporal_keywords, query_lower)
                 THEN [plan1 EXCEPT !.chromadb_k = 10, !.use_lightrag = FALSE]
                 ELSE plan1
    IN NodeResult([s EXCEPT !.query_plan = plan2], FALSE, <<>>, <<>>)

----------------------------------------------------------------------------
(* Outcomes of the external calls                                          *)

ConnectionErrors == {"ConnectionError", "TimeoutError"}
ExcClasses == ConnectionErrors \cup {"Exception"}

Raise(cls, text) == [kind |-> "raise", exc |-> cls, text |-> text]
Return(v) == [kind |-> "return", value |-> v]

Raises == {Raise(c, t) : c \in ExcClasses, t \in ExcTexts}

\* indexer.query_structured_memory(query, mode): the dict of
\* IAMIGraphIndexer.query (its echo of query and mode is never read and is
\* left out), or an exception
StructuredOutcomes ==
    {Return([success |-> TRUE, result |-> t]) : t \in StoreTexts}
    \cup {Return([success |-> FALSE, error |-> t]) : t \in ExcTexts}
    \cup Raises

\* the values a document's similarity_score can hold: a float (in units of
\* 1/ScoreUnit), None, or a string
Float(n) == [type |-> "float", value |-> n]
PyNone == [type |-> "NoneType"]
PyStr(text) == [type |-> "str", text |-> text]

\* one hit of ChromaDBIndexer.search_with_score, which stores float(score);
\* the n-th hit of a response carries the n-th content
Hit(n, score) ==
    [content |-> "chunk " \o ToString(n), metadata |-> [doc_type |-> "conversation"],
     similarity_score |-> Float(score)]

\* indexer.query_conversations(query, k): at most k hits, or an exception
VectorOutcomes(k) ==
    {Return([n \in 1..Len(sc) |-> Hit(n, sc[n])]) :
        sc \in SeqsUpTo(Scores, IF k < MaxHits THEN k ELSE MaxHits)}
    \cup Raises

\* get_llm(): create_llm(provider) returns a client or raises; on a raise the
\* fallback constructor ChatOpenAI(...) returns a client or raises
ClientOutcomes ==
    {[create_llm |-> "return", ChatOpenAI |-> "unused"],
     [create_llm |-> "raise", ChatOpenAI |-> "return"],
     [create_llm |-> "raise", ChatOpenAI |-> "raise"]}

\* llm.ainvoke(prompt): a response with .content, or an exception
LLMOutcomes == {Return([content |-> t]) : t \in LLMTexts} \cup Raises

----------------------------------------------------------------------------
(* Observations                                                            *)

\* an external call, with the arguments passed and what came back
Call(target, args, outcome) ==
    [ev |-> "call", name |-> target, args |-> args, outcome |-> outcome]
Begin(node) == [ev |-> "begin", name |-> node]
End(node) == [ev |-> "end", name |-> node]
Log(level, msg) == [level |-> level, msg |-> msg]

----------------------------------------------------------------------------
(* retrieve_lightrag_node, retrieve_chromadb_node                          *)

\* faulty variant: the plan's use_lightrag is not looked at
retrieve_lightrag_node_no_skip(s, outcome) ==
    LET query_plan == Get(s, "query_plan", EmptyDict)
        mode == Get(query_plan, "lightrag_mode", "hybrid")
        call == <<Call("query_structured_memory", [query |-> s.query, mode |-> mode],
                       outcome)>>
        docs(d) == [s EXCEPT !.lightrag_docs = d]
    IN  IF outcome.kind = "return"
        THEN IF Get(outcome.value, "success", FALSE)
             THEN NodeResult(docs(<<[content |-> Get(outcome.value, "result", ""),
                                     source |-> "lightrag",
                                     mode |-> mode]>>), FALSE, call, <<>>)
             ELSE NodeResult(docs(<<>>), FALSE, call, <<>>)
        ELSE IF outcome.exc \in ConnectionErrors
        THEN NodeResult(docs(<<>>), FALSE, call,
                        <<Log("error", "LightRAG connection/timeout error")>>)
        ELSE NodeResult(docs(<<>>), FALSE, call,
                        <<Log("warning", "LightRAG retrieval error")>>)

retrieve_lightrag_node(s, outcome) ==
    LET query_plan == Get(s, "query_plan", EmptyDict)
        mode == Get(query_plan, "lightrag_mode", "hybrid")
        call == <<Call("query_structured_memory", [query |-> s.query, mode |-> mode],
                       outcome)>>
        docs(d) == [s EXCEPT !.lightrag_docs = d]
    IN  IF ~Get(query_plan, "use_lightrag", TRUE)
        THEN NodeResult(docs(<<>>), FALSE, <<>>, <<>>)
        ELSE IF outcome.kind = "return"
        THEN IF Get(outcome.value, "success", FALSE)
             THEN NodeResult(docs(<<[content |-> Get(outcome.value, "result", ""),
                                     source |-> "lightrag",
                                     mode |-> mode]>>), FALSE, call, <<>>)
             ELSE NodeResult(docs(<<>>), FALSE, call, <<>>)
        ELSE IF outcome.exc \in ConnectionErrors
        THEN NodeResult(docs(<<>>), FALSE, call,
                        <<Log("error", "LightRAG connection/timeout error")>>)
        ELSE NodeResult(docs(<<>>), FALSE, call,
                        <<Log("warning", "LightRAG retrieval error")>>)

\* faulty variant: only connection and timeout errors are caught
retrieve_chromadb_node_uncaught(s, outcome) ==
    LET query_plan == Get(s, "query_plan", EmptyDict)
        k == Get(query_plan, "chromadb_k", 5)
        call == <<Call("query_conversations", [query |-> s.query, k |-> k], outcome)>>
        docs(d) == [s EXCEPT !.chromadb_docs = d]
    IN  IF ~Get(query_plan, "use_chromadb", TRUE)
        THEN NodeResult(docs(<<>>), FALSE, <<>>, <<>>)
        ELSE IF outcome.kind = "return"
        THEN NodeResult(docs(outcome.value), FALSE, call, <<>>)
        ELSE IF outcome.exc \in ConnectionErrors
        THEN NodeResult(docs(<<>>), FALSE, call,
                        <<Log("error", "ChromaDB connection/timeout error")>>)
        ELSE NodeResult(s, TRUE, call, <<>>)

\* faulty variant: the node records the k it used in the plan
retrieve_chromadb_node_writes_plan(s, outcome) ==
    LET query_plan == Get(s, "query_plan", EmptyDict)
        k == Get(query_plan, "chromadb_k", 5)
        call == <<Call("query_conversations", [query |-> s.query, k |-> k], outcome)>>
        docs(d) == [s EXCEPT !.chromadb_docs = d,
                             !.query_plan = [key \in DOMAIN query_plan \cup {"used_k"} |->
                                                IF key = "used_k" THEN k ELSE query_plan[key]]]
    IN  IF ~Get(query_plan, "use_chromadb", TRUE)
        THEN NodeResult(docs(<<>>), FALSE, <<>>, <<>>)
        ELSE IF outcome.kind = "return"
        THEN NodeResult(docs(outcome.value), FALSE, call, <<>>)
        ELSE IF outcome.exc \in ConnectionErrors
        THEN NodeResult(docs(<<>>), FALSE, call,
                        <<Log("error", "ChromaDB connection/timeout error")>>)
        ELSE NodeResult(docs(<<>>), FALSE, call,
                        <<Log("warning", "ChromaDB retrieval error")>>)

retrieve_chromadb_node(s, outcome) ==
    LET query_plan == Get(s, "query_plan", EmptyDict)
        k == Get(query_plan, "chromadb_k", 5)
        call == <<Call("query_conversations", [query |-> s.query, k |-> k], outcome)>>
        docs(d) == [s EXCEPT !.chromadb_docs = d]
    IN  IF ~Get(query_plan, "use_chromadb", TRUE)
        THEN NodeResult(docs(<<>>), FALSE, <<>>, <<>>)
        ELSE IF outcome.kind = "return"
        THEN NodeResult(docs(outcome.value), FALSE, call, <<>>)
        ELSE IF outcome.exc \in ConnectionErrors
        THEN NodeResult(docs(<<>>), FALSE, call,
                        <<Log("error", "ChromaDB connection/timeout error")>>)
        ELSE NodeResult(docs(<<>>), FALSE, call,
                        <<Log("warning", "ChromaDB retrieval error")>>)

----------------------------------------------------------------------------
(* evaluate_relevance_node                                                 *)

\* faulty variant: graph results are scored 1.0
LightragRelevance_top == <<1, 1>>

\* relevance scores are rationals <<num, den>> with den > 0
LightragRelevance == <<9, 10>>
\* faulty variant: 1.0 - similarity
RelevanceOf_one_minus(similarity) == <<ScoreUnit - similarity, ScoreUnit>>

\* 1.0 / (1.0 + similarity)
RelevanceOf(similarity) == <<ScoreUnit, ScoreUnit + similarity>>

\* faulty variant: similarity <= 1.5
BelowThreshold_inclusive(similarity) == 2 * similarity <= 3 * ScoreUnit

\* similarity < 1.5
BelowThreshold(similarity) == 2 * similarity < 3 * ScoreUnit

ScoreLess(a, b) == a[1] * b[2] < b[1] * a[2]

\* {**doc, "relevance_score": r}
WithRelevance(doc, r) ==
    [k \in DOMAIN doc \cup {"relevance_score"} |->
        IF k = "relevance_score" THEN r ELSE doc[k]]

\* faulty variant: an element goes in front of the elements with an equal key
InsertByScore_unstable(sorted, x) ==
    LET notlarger == {i \in 1..Len(sorted) :
                        ~ScoreLess(x.relevance_score, sorted[i].relevance_score)}
        pos == IF notlarger = {} THEN Len(sorted) + 1
               ELSE CHOOSE i \in notlarger : \A j \in notlarger : i <= j
    IN SubSeq(sorted, 1, pos - 1) \o <<x>> \o SubSeq(sorted, pos, Len(sorted))

\* list.sort(key=relevance_score, reverse=True): stable, so an element goes
\* behind every element whose key is not smaller
InsertByScore(sorted, x) ==
    LET smaller == {i \in 1..Len(sorted) :
                        ScoreLess(sorted[i].relevance_score, x.relevance_score)}
        pos == IF smaller = {} THEN Len(sorted) + 1
               ELSE CHOOSE i \in smaller : \A j \in smaller : i <= j
    IN SubSeq(sorted, 1, pos - 1) \o <<x>> \o SubSeq(sorted, pos, Len(sorted))

RECURSIVE SortByRelevance(_)
SortByRelevance(docs) ==
    IF docs = <<>> THEN <<>>
    ELSE InsertByScore(SortByRelevance(SubSeq(docs, 1, Len(docs) - 1)), docs[Len(docs)])

RECURSIVE ScoreLightrag(_)
ScoreLightrag(docs) ==
    IF docs = <<>> THEN <<>>
    ELSE (IF Get(Head(docs), "content", "") # ""
          THEN <<WithRelevance(Head(docs), LightragRelevance)>>
          ELSE <<>>) \o ScoreLightrag(Tail(docs))

\* doc.get("similarity_score", 0)
Similarity(doc) == Get(doc, "similarity_score", Float(0))

\* the loop body raises on this document: "similarity < 1.5" is a TypeError
\* unless similarity is a number, and 1.0 / (1.0 + similarity) is a
\* ZeroDivisionError at -1.0
ScoreRaises(doc) ==
    \/ Similarity(doc).type # "float"
    \/ Similarity(doc).value = -ScoreUnit

RECURSIVE ScoreChromadb(_)
ScoreChromadb(docs) ==
    IF docs = <<>> THEN <<>>
    ELSE LET similarity == Similarity(Head(docs)).value
         IN (IF BelowThreshold(similarity)
             THEN <<WithRelevance(Head(docs), RelevanceOf(similarity))>>
             ELSE <<>>) \o ScoreChromadb(Tail(docs))

\* faulty variant: a structured document is scored whether or not it has
\* content
evaluate_relevance_node_no_content_check(s) ==
    LET lightrag_docs == Get(s, "lightrag_docs", <<>>)
        chromadb_docs == Get(s, "chromadb_docs", <<>>)
        relevant_docs ==
            SortByRelevance([i \in 1..Len(lightrag_docs) |->
                                WithRelevance(lightrag_docs[i], LightragRelevance)]
                            \o ScoreChromadb(chromadb_docs))
    IN IF \E i \in 1..Len(chromadb_docs) : ScoreRaises(chromadb_docs[i])
       THEN NodeResult(s, TRUE, <<>>, <<>>)
       ELSE NodeResult([s EXCEPT !.relevant_docs = relevant_docs,
                                 !.has_sufficient_results = Len(relevant_docs) > 0],
                       FALSE, <<>>, <<>>)

\* faulty variant: vector hits are left out once the structured store has
\* contributed a candidate
evaluate_relevance_node_early_exit(s) ==
    LET lightrag_docs == Get(s, "lightrag_docs", <<>>)
        chromadb_docs == Get(s, "chromadb_docs", <<>>)
        relevant_docs ==
            IF ScoreLightrag(lightrag_docs) # <<>>
            THEN ScoreLightrag(lightrag_docs)
            ELSE SortByRelevance(ScoreChromadb(chromadb_docs))
    IN NodeResult([s EXCEPT !.relevant_docs = relevant_docs,
                            !.has_sufficient_results = Len(relevant_docs) > 0],
                  FALSE, <<>>, <<>>)

\* nothing is caught in the node: an exception of the loop leaves it with
\* the state dict as it came in
evaluate_relevance_node(s) ==
    LET lightrag_docs == Get(s, "lightrag_docs", <<>>)
        chromadb_docs == Get(s, "chromadb_docs", <<>>)
        relevant_docs ==
            SortByRelevance(ScoreLightrag(lightrag_docs) \o ScoreChromadb(chromadb_docs))
    IN IF \E i \in 1..Len(chromadb_docs) : ScoreRaises(chromadb_docs[i])
       THEN NodeResult(s, TRUE, <<>>, <<>>)
       ELSE NodeResult([s EXCEPT !.relevant_docs = relevant_docs,
                                 !.has_sufficient_results = Len(relevant_docs) > 0],
                       FALSE, <<>>, <<>>)

----------------------------------------------------------------------------
(* get_llm, generate_answer_node                                           *)

NoInformationMessage == "baoqian, wo meiyou zhaodao xiangguan xinxi lai huida zhege wenti."
NetworkIssueMessage == "baoqian, wangluo lianjie chuxian wenti, qing shaohou chongshi."
ErrorMessage(text) == "shengcheng da'an shi chucuo: " \o text

\* relevant_docs[:5]
TopDocs == 5

\* get_llm(): TRUE when it hands back a client, FALSE when the fallback
\* constructor raises out of the except block
get_llm(client) ==
    [raised |-> client.create_llm = "raise" /\ client.ChatOpenAI = "raise",
     logs |-> IF client.create_llm = "raise"
              THEN <<Log("error", "Failed to create LLM")>> ELSE <<>>]

\* faulty variant: every candidate goes into the context
ContextParts_uncapped(relevant_docs) ==
    [i \in 1..Len(relevant_docs) |->
          [index |-> i,
           source |-> Get(relevant_docs[i], "source", "unknown"),
           score |-> Get(relevant_docs[i], "relevance_score", <<0, 1>>),
           content |-> Get(relevant_docs[i], "content", "")]]

\* the context_parts built from relevant_docs[:5]
ContextParts(relevant_docs) ==
    LET top == Take(relevant_docs, TopDocs)
    IN [i \in 1..Len(top) |->
          [index |-> i,
           source |-> Get(top[i], "source", "unknown"),
           score |-> Get(top[i], "relevance_score", <<0, 1>>),
           content |-> Get(top[i], "content", "")]]

\* faulty variant: the LLM is called on an empty candidate list as well
generate_answer_node_no_short_circuit(s, client, outcome) ==
    LET relevant_docs == Get(s, "relevant_docs", <<>>)
        llm == get_llm(client)
        call == <<Call("llm.ainvoke",
                       [query |-> s.query, context |-> ContextParts(relevant_docs)],
                       outcome)>>
        answer(a) == [s EXCEPT !.final_answer = a]
    IN  IF llm.raised
        THEN NodeResult(s, TRUE, <<>>, llm.logs)
        ELSE IF outcome.kind = "return"
        THEN NodeResult(answer(outcome.value.content), FALSE, call, llm.logs)
        ELSE IF outcome.exc \in ConnectionErrors
        THEN NodeResult(answer(NetworkIssueMessage), FALSE, call,
                        llm.logs \o <<Log("error", "LLM connection/timeout error")>>)
        ELSE NodeResult(answer(ErrorMessage(outcome.text)), FALSE, call,
                        llm.logs \o <<Log("error", "Answer generation error")>>)

\* faulty variant: one handler for every exception of the LLM call
generate_answer_node_one_handler(s, client, outcome) ==
    LET relevant_docs == Get(s, "relevant_docs", <<>>)
        llm == get_llm(client)
        call == <<Call("llm.ainvoke",
                       [query |-> s.query, context |-> ContextParts(relevant_docs)],
                       outcome)>>
        answer(a) == [s EXCEPT !.final_answer = a]
    IN  IF relevant_docs = <<>>
        THEN NodeResult(answer(NoInformationMessage), FALSE, <<>>, <<>>)
        ELSE IF llm.raised
        THEN NodeResult(s, TRUE, <<>>, llm.logs)
        ELSE IF outcome.kind = "return"
        THEN NodeResult(answer(outcome.value.content), FALSE, call, llm.logs)
        ELSE NodeResult(answer(NetworkIssueMessage), FALSE, call,
                        llm.logs \o <<Log("error", "LLM connection/timeout error")>>)

\* faulty variant: the handler of other exceptions only logs
generate_answer_node_unset(s, client, outcome) ==
    LET relevant_docs == Get(s, "relevant_docs", <<>>)
        llm == get_llm(client)
        call == <<Call("llm.ainvoke",
                       [query |-> s.query, context |-> ContextParts(relevant_docs)],
                       outcome)>>
        answer(a) == [s EXCEPT !.final_answer = a]
    IN  IF relevant_docs = <<>>
        THEN NodeResult(answer(NoInformationMessage), FALSE, <<>>, <<>>)
        ELSE IF llm.raised
        THEN NodeResult(s, TRUE, <<>>, llm.logs)
        ELSE IF outcome.kind = "return"
        THEN NodeResult(answer(outcome.value.content), FALSE, call, llm.logs)
        ELSE IF outcome.exc \in ConnectionErrors
        THEN NodeResult(answer(NetworkIssueMessage), FALSE, call,
                        llm.logs \o <<Log("error", "LLM connection/timeout error")>>)
        ELSE NodeResult(s, FALSE, call,
                        llm.logs \o <<Log("error", "Answer generation error")>>)

generate_answer_node(s, client, outcome) ==
    LET relevant_docs == Get(s, "relevant_docs", <<>>)
        llm == get_llm(client)
        call == <<Call("llm.ainvoke",
                       [query |-> s.query, context |-> ContextParts(relevant_docs)],
                       outcome)>>
        answer(a) == [s EXCEPT !.final_answer = a]
    IN  IF relevant_docs = <<>>
        THEN NodeResult(answer(NoInformationMessage), FALSE, <<>>, <<>>)
        ELSE IF llm.raised
        THEN NodeResult(s, TRUE, <<>>, llm.logs)
        ELSE IF outcome.kind = "return"
        THEN NodeResult(answer(outcome.value.content), FALSE, call, llm.logs)
        ELSE IF outcome.exc \in ConnectionErrors
        THEN NodeResult(answer(NetworkIssueMessage), FALSE, call,
                        llm.logs \o <<Log("error", "LLM connection/timeout error")>>)
        ELSE NodeResult(answer(ErrorMessage(outcome.text)), FALSE, call,
                        llm.logs \o <<Log("error", "Answer generation error")>>)

\* faulty variant: the edge reads use_lightrag
should_retrieve_chromadb_wrong_key(s) ==
    IF Get(Get(s, "query_plan", EmptyDict), "use_lightrag", TRUE)
    THEN "retrieve_chromadb"
    ELSE "evaluate"

\* conditional edge after retrieve_lightrag
should_retrieve_chromadb(s) ==
    IF Get(Get(s, "query_plan", EmptyDict), "use_chromadb", TRUE)
    THEN "retrieve_chromadb"
    ELSE "evaluate"

\* the mapping of add_conditional_edges
EdgeTarget(label) ==
    CASE label = "retrieve_chromadb" -> "retrieve_chromadb"
      [] label = "evaluate" -> "evaluate_relevance"

----------------------------------------------------------------------------
(* AdaptiveRAGAgent.query and the compiled workflow                        *)

Queries == SeqsUpTo(Alphabet, MaxQueryLen)

initial_state(query) ==
    [query |-> query,
     query_plan |-> EmptyDict,
     lightrag_docs |-> <<>>,
     chromadb_docs |-> <<>>,
     relevant_docs |-> <<>>,
     has_sufficient_results |-> FALSE,
     final_answer |-> ""]

NoResult == [returned |-> FALSE]

Init ==
    /\ pc = "idle"
    /\ state = EmptyDict
    /\ result = NoResult
    /\ history = <<>>
    /\ logs = <<>>

\* AdaptiveRAGAgent.query builds initial_state and enters the workflow at
\* its entry point
StartQuery ==
    /\ pc = "idle"
    /\ \E q \in Queries : state' = initial_state(q)
    /\ pc' = "plan_query"
    /\ UNCHANGED <<result, history, logs>>

\* one node of the workflow runs; an exception leaving the node leaves
\* workflow.ainvoke and query as well
RunNode(node, r, next) ==
    /\ state' = r.state
    /\ history' = history \o <<Begin(node)>> \o r.calls
                          \o (IF r.raised THEN <<>> ELSE <<End(node)>>)
    /\ logs' = logs \o r.logs
    /\ pc' = IF r.raised THEN "raised" ELSE next
    /\ UNCHANGED result

\* faulty variant: the edge out of plan_query leads to retrieve_chromadb
PlanQuery_wrong_edge ==
    /\ pc = "plan_query"
    /\ RunNode("plan_query", plan_query_node(state), "retrieve_chromadb")

PlanQuery ==
    /\ pc = "plan_query"
    /\ RunNode("plan_query", plan_query_node(state), "retrieve_lightrag")

RetrieveLightrag ==
    /\ pc = "retrieve_lightrag"
    /\ \E outcome \in StructuredOutcomes :
        LET r == retrieve_lightrag_node(state, outcome)
        IN RunNode("retrieve_lightrag", r, EdgeTarget(should_retrieve_chromadb(r.state)))

RetrieveChromadb ==
    /\ pc = "retrieve_chromadb"
    /\ \E outcome \in VectorOutcomes(Get(Get(state, "query_plan", EmptyDict), "chromadb_k", 5)) :
        RunNode("retrieve_chromadb", retrieve_chromadb_node(state, outcome),
                "evaluate_relevance")

EvaluateRelevance ==
    /\ pc = "evaluate_relevance"
    /\ RunNode("evaluate_relevance", evaluate_relevance_node(state), "generate_answer")

GenerateAnswer ==
    /\ pc = "generate_answer"
    /\ \E client \in ClientOutcomes, outcome \in LLMOutcomes :
        RunNode("generate_answer", generate_answer_node(state, client, outcome), "END")

\* query returns the result dict built from final_state
ReturnResult ==
    /\ pc = "END"
    /\ result' = [query |-> state.query,
                  final_answer |-> Get(state, "final_answer", ""),
                  relevant_docs |-> Get(state, "relevant_docs", <<>>),
                  query_plan |-> Get(state, "query_plan", EmptyDict),
                  num_results |-> Len(Get(state, "relevant_docs", <<>>))]
    /\ pc' = "returned"
    /\ UNCHANGED <<state, history, logs>>

Next ==
    \/ StartQuery
    \/ PlanQuery
    \/ RetrieveLightrag
    \/ RetrieveChromadb
    \/ EvaluateRelevance
    \/ GenerateAnswer
    \/ ReturnResult

Spec == Init /\ [][Next]_vars

----------------------------------------------------------------------------
(* The stages behind the planner, run on a given plan: the node functions  *)
(* and the conditional edge read the plan from the state dict, whichever   *)
(* planner wrote it.                                                       *)

GivenQueries == {<<"?">>}

RetrievalPlans ==
    [use_lightrag : BOOLEAN, use_chromadb : BOOLEAN,
     lightrag_mode : {"naive", "local", "global", "hybrid"},
     chromadb_k : {5, 10}]

InitGivenPlan ==
    /\ pc = "retrieve_lightrag"
    /\ \E q \in GivenQueries, plan \in RetrievalPlans \cup {EmptyDict} :
           state = [initial_state(q) EXCEPT !.query_plan = plan]
    /\ result = NoResult
    /\ history = <<>>
    /\ logs = <<>>

NextGivenPlan ==
    \/ RetrieveLightrag
    \/ RetrieveChromadb
    \/ EvaluateRelevance
    \/ GenerateAnswer
    \/ ReturnResult

SpecGivenPlan == InitGivenPlan /\ [][NextGivenPlan]_vars

----------------------------------------------------------------------------
(* evaluate_relevance_node and generate_answer_node as functions of the     *)
(* state dict they are handed: the retrieval results are given, with as    *)
(* many hits as the larger chromadb_k allows and with every kind of        *)
(* similarity_score a document dict can carry.                             *)

MaxGivenHits == 6

GivenPlan ==
    [use_lightrag |-> TRUE, use_chromadb |-> TRUE,
     lightrag_mode |-> "hybrid", chromadb_k |-> 10]

\* 0, just below 1.5, exactly 1.5, above 1.5; None; a string
GivenSimilarities ==
    {Float(n) : n \in {0, 26, 27, 29}} \cup {PyNone, PyStr("0.3")}

GivenHit(n, score) ==
    [content |-> "chunk " \o ToString(n), metadata |-> [doc_type |-> "conversation"],
     similarity_score |-> score]

HitNoScore(n) ==
    [content |-> "chunk " \o ToString(n), metadata |-> [doc_type |-> "conversation"]]

GivenChromadbDocs ==
    {[n \in 1..Len(sc) |-> Hit(n, sc[n])] : sc \in SeqsUpTo({0, 2}, MaxGivenHits)}
    \cup {[n \in 1..Len(sc) |-> GivenHit(n, sc[n])] :
              sc \in SeqsUpTo(GivenSimilarities, MaxHits)}
    \cup {<<HitNoScore(1)>>, <<HitNoScore(1), Hit(2, 2)>>}

GivenLightragDocs ==
    {<<>>} \cup {<<[content |-> text, source |-> "lightrag", mode |-> "hybrid"]>> :
                    text \in StoreTexts}

InitEvaluate ==
    /\ pc = "evaluate_relevance"
    /\ \E q \in GivenQueries, ld \in GivenLightragDocs, cd \in GivenChromadbDocs :
           state = [initial_state(q) EXCEPT !.query_plan = GivenPlan,
                                            !.lightrag_docs = ld,
                                            !.chromadb_docs = cd]
    /\ result = NoResult
    /\ history = <<>>
    /\ logs = <<>>

NextEvaluate ==
    \/ EvaluateRelevance
    \/ GenerateAnswer
    \/ ReturnResult

SpecEvaluate == InitEvaluate /\ [][NextEvaluate]_vars

----------------------------------------------------------------------------
(* HybridIndexer.index_document and index_documents.  In this part pc is   *)
(* the position in index_documents, state holds its arguments and locals,  *)
(* result the summary it returns, history one event per index_document     *)
(* call and logs what update_document prints.                              *)

MaxDocs == 3

LIGHTRAG_TYPES ==
    {"personality", "values", "thinking_patterns", "language_style", "knowledge",
     "person_profile", "relationship", "ecological_system", "social_identity",
     "timeline_snapshot"}

CHROMADB_TYPES == {"conversation", "short_term_memory", "notes"}

\* a type of each routing class, both ChromaDB methods, and a type of neither
DocTypes == {"personality", "conversation", "notes", "article"}

\* the n-th document of a list; a document may come without a type
Doc(n, type) == [id |-> n, type |-> type, content |-> "text"]
DocNoType(n) == [id |-> n, content |-> "text"]

DocumentLists ==
    UNION {{[n \in 1..len |-> Doc(n, types[n])] : types \in [1..len -> DocTypes]} :
              len \in 0..MaxDocs}
    \cup {<<DocNoType(1)>>}

\* rag.ainsert, add_conversation and add_memory_snapshot return or raise
InsertOutcomes == {Return("ok"), Raise("Exception", "boom")}

\* IAMIGraphIndexer.update_document: every exception of the insert is
\* caught and printed, and False is returned
update_document(doc, ainsert) ==
    [raised |-> FALSE,
     value |-> ainsert.kind = "return",
     calls |-> <<Call("rag.ainsert", [doc_id |-> doc.id], ainsert)>>,
     logs |-> IF ainsert.kind = "raise"
              THEN <<Log("print", "Error updating document")>> ELSE <<>>]

\* the ChromaDB method index_document calls for a type
ChromaMethod(doc_type) ==
    IF doc_type \in CHROMADB_TYPES /\ doc_type = "conversation"
    THEN "add_conversation" ELSE "add_memory_snapshot"

\* faulty variant: a document of neither class is not offered to ChromaDB
\* once its LightRAG insert has failed
index_document_stops_after_failure(doc, ainsert, chroma) ==
    LET doc_type == Get(doc, "type", "unknown")
        to_lightrag == doc_type \in LIGHTRAG_TYPES
        to_chromadb == doc_type \in CHROMADB_TYPES
        to_both == doc_type \notin LIGHTRAG_TYPES /\ doc_type \notin CHROMADB_TYPES
        u == update_document(doc, ainsert)
        inserted == to_lightrag \/ to_both
        added == to_chromadb \/ (to_both /\ u.value)
        add == <<Call(ChromaMethod(doc_type), [doc_id |-> doc.id], chroma)>>
    IN [result |->
          [doc_id |-> doc.id,
           doc_type |-> doc_type,
           lightrag |-> inserted /\ ~u.raised,
           chromadb |-> added /\ chroma.kind = "return",
           errors |-> (IF inserted /\ u.raised
                       THEN <<"LightRAG error: " \o ainsert.text>> ELSE <<>>)
                      \o (IF added /\ chroma.kind = "raise"
                          THEN <<"ChromaDB error: " \o chroma.text>> ELSE <<>>)],
        calls |-> (IF inserted THEN u.calls ELSE <<>>) \o (IF added THEN add ELSE <<>>),
        logs |-> IF inserted THEN u.logs ELSE <<>>]

\* HybridIndexer.index_document: result["lightrag"] is set after
\* update_document unless it raises, result["chromadb"] after the ChromaDB
\* method unless it raises
index_document(doc, ainsert, chroma) ==
    LET doc_type == Get(doc, "type", "unknown")
        to_lightrag == doc_type \in LIGHTRAG_TYPES
        to_chromadb == doc_type \in CHROMADB_TYPES
        to_both == doc_type \notin LIGHTRAG_TYPES /\ doc_type \notin CHROMADB_TYPES
        u == update_document(doc, ainsert)
        inserted == to_lightrag \/ to_both
        added == to_chromadb \/ to_both
        add == <<Call(ChromaMethod(doc_type), [doc_id |-> doc.id], chroma)>>
    IN [result |->
          [doc_id |-> doc.id,
           doc_type |-> doc_type,
           lightrag |-> inserted /\ ~u.raised,
           chromadb |-> added /\ chroma.kind = "return",
           errors |-> (IF inserted /\ u.raised
                       THEN <<"LightRAG error: " \o ainsert.text>> ELSE <<>>)
                      \o (IF added /\ chroma.kind = "raise"
                          THEN <<"ChromaDB error: " \o chroma.text>> ELSE <<>>)],
        calls |-> (IF inserted THEN u.calls ELSE <<>>) \o (IF added THEN add ELSE <<>>),
        logs |-> IF inserted THEN u.logs ELSE <<>>]

\* the summary before the loop
EmptySummary(documents) ==
    [total |-> Len(documents), lightrag_count |-> 0, chromadb_count |-> 0,
     both_count |-> 0, failed |-> 0, errors |-> <<>>]

\* the body of the loop of index_documents, after index_document returned
Tally(results, r) ==
    LET counted ==
            IF r.lightrag /\ r.chromadb
            THEN [results EXCEPT !.both_count = @ + 1]
            ELSE IF r.lightrag THEN [results EXCEPT !.lightrag_count = @ + 1]
            ELSE IF r.chromadb THEN [results EXCEPT !.chromadb_count = @ + 1]
            ELSE [results EXCEPT !.failed = @ + 1]
    IN [counted EXCEPT !.errors = @ \o r.errors]

\* one index_document call as it is observed
Indexed(doc, r) ==
    [ev |-> "index_document", name |-> "index_document", doc |-> doc,
     calls |-> r.calls, result |-> r.result]

InitIndex ==
    /\ pc = "index_documents"
    /\ \E documents \in DocumentLists :
           state = [documents |-> documents, next |-> 1,
                    results |-> EmptySummary(documents)]
    /\ result = NoResult
    /\ history = <<>>
    /\ logs = <<>>

\* one turn of the loop: index_document on the next document, then the tally
IndexDocument ==
    /\ pc = "index_documents"
    /\ state.next <= Len(state.documents)
    /\ \E ainsert \in InsertOutcomes, chroma \in InsertOutcomes :
          LET doc == state.documents[state.next]
              r == index_document(doc, ainsert, chroma)
          IN  /\ state' = [state EXCEPT !.next = @ + 1,
                                        !.results = Tally(@, r.result)]
              /\ history' = Append(history, Indexed(doc, r))
              /\ logs' = logs \o r.logs
    /\ UNCHANGED <<pc, result>>

\* the loop is over: index_documents returns the summary
ReturnSummary ==
    /\ pc = "index_documents"
    /\ state.next > Len(state.documents)
    /\ result' = state.results
    /\ pc' = "returned"
    /\ UNCHANGED <<state, history, logs>>

NextIndex ==
    \/ IndexDocument
    \/ ReturnSummary

SpecIndex == InitIndex /\ [][NextIndex]_vars

----------------------------------------------------------------------------
(* IAMIBaseAgent: the queue of token-usage records.  In this part state    *)
(* holds the agent's fields, the TokenUsage table and the locals of the    *)
(* flushes that have been suspended at an await; history lists the         *)
(* records as they were queued.                                            *)

\* records queued while the database is down, and while it answers
MaxQueued == 51
MaxQueuedUp == 12
MaxCleanups == 1
MaxWithoutUsage == 2

flush_interval == 10
max_pending_records == 50

\* a user_id of the form the flush parses with a user row behind it, the
\* constructor's default, and a well-formed id without a user row
UserIds == {"user_1", "default", "user_9"}
ExistingUsers == {"user_1"}
ValidFormat(user_id) == user_id \in {"user_1", "user_9"}

\* the n-th (response, call_type) pair; token_usage may be missing from the
\* response metadata (here of the first MaxWithoutUsage responses only)
UsageRecord(n, has_usage) == [id |-> n, has_usage |-> has_usage]

\* what the database does to a flush that has reached it: the user lookup
\* and the bulk insert succeed, or one of them raises; a database that is
\* down raises every time
DbOutcomes(agent) ==
    IF agent.db = "down" THEN {Raise("Exception", "boom")}
    ELSE {Return("ok"), Raise("Exception", "boom")}

\* _flush_usage_records up to its first await: the queue is copied and
\* cleared; with a user_id of the wrong form the function returns there
FlushTake(agent, who) ==
    IF agent.pending = <<>> THEN agent
    ELSE IF ~ValidFormat(agent.user_id)
    THEN [agent EXCEPT !.pending = <<>>]
    ELSE [agent EXCEPT !.pending = <<>>,
                       ![who] = [active |-> TRUE, records_to_write |-> agent.pending]]

\* the rest of _flush_usage_records: User.DoesNotExist returns, any other
\* exception puts records_to_write back, otherwise the records with
\* token_usage are written
FlushFinish(agent, who, db) ==
    LET records_to_write == agent[who].records_to_write
        usage_objects == SelectSeq(records_to_write, LAMBDA rec : rec.has_usage)
        done == [agent EXCEPT ![who] = [active |-> FALSE, records_to_write |-> <<>>]]
    IN  IF db.kind = "raise"
        THEN [done EXCEPT !.pending = @ \o records_to_write]
        ELSE IF agent.user_id \notin ExistingUsers
        THEN done
        ELSE [done EXCEPT !.table = @ \o usage_objects]

NoFlush == [active |-> FALSE, records_to_write |-> <<>>]

InitUsage ==
    /\ pc = "agent"
    /\ \E user_id \in UserIds, db \in {"up", "down"} :
          state = [user_id |-> user_id, db |-> db, pending |-> <<>>, table |-> <<>>,
                   cleanups |-> 0,
                   queue_flush |-> NoFlush, cleanup_flush |-> NoFlush]
    /\ result = NoResult
    /\ history = <<>>
    /\ logs = <<>>

\* invoke_llm: a failed llm.ainvoke is re-raised before anything is queued;
\* otherwise _queue_usage_record takes the lock, appends and, at the flush
\* interval, starts a flush that keeps the lock until it is over
InvokeLLM ==
    /\ pc = "agent"
    /\ Len(history) < IF state.db = "down" THEN MaxQueued ELSE MaxQueuedUp
    /\ ~state.queue_flush.active
    /\ \E ainvoke \in {"return", "raise"},
          has_usage \in IF Len(history) < MaxWithoutUsage THEN BOOLEAN ELSE {TRUE} :
          IF ainvoke = "raise" THEN UNCHANGED <<state, history>>
          ELSE LET rec == UsageRecord(Len(history) + 1, has_usage)
                   appended == [state EXCEPT !.pending = Append(@, rec)]
               IN  /\ state' = IF Len(appended.pending) >= flush_interval
                                THEN FlushTake(appended, "queue_flush")
                                ELSE appended
                   /\ history' = Append(history, rec)
    /\ UNCHANGED <<pc, result, logs>>

\* the flush started by _queue_usage_record goes on after its await
FinishQueueFlush ==
    /\ pc = "agent"
    /\ state.queue_flush.active
    /\ \E db \in DbOutcomes(state) : state' = FlushFinish(state, "queue_flush", db)
    /\ UNCHANGED <<pc, result, history, logs>>

\* cleanup: _flush_usage_records without the lock
Cleanup ==
    /\ pc = "agent"
    /\ state.cleanups < MaxCleanups
    /\ ~state.cleanup_flush.active
    /\ state' = [FlushTake(state, "cleanup_flush") EXCEPT !.cleanups = @ + 1]
    /\ UNCHANGED <<pc, result, history, logs>>

\* the flush started by cleanup goes on after its await
FinishCleanup ==
    /\ pc = "agent"
    /\ state.cleanup_flush.active
    /\ \E db \in DbOutcomes(state) : state' = FlushFinish(state, "cleanup_flush", db)
    /\ UNCHANGED <<pc, result, history, logs>>

NextUsage ==
    \/ InvokeLLM
    \/ FinishQueueFlush
    \/ Cleanup
    \/ FinishCleanup

SpecUsage == InitUsage /\ [][NextUsage]_vars

----------------------------------------------------------------------------
(* MemoryFileHandler: the debounced re-index of the file watcher.  In this *)
(* part state holds the handler's fields and the tasks it has created,     *)
(* history the accepted changes and the starts of re-index runs in the     *)
(* order they happened.                                                    *)

MaxChanges == 3

\* paths as Path sees them: the parts of the directory, the name, the suffix
FilePath(parts, name, suffix) == [parts |-> parts, name |-> name, suffix |-> suffix]

WatchedPaths ==
    {FilePath({"memory", "personality"}, "core.json", ".json"),
     FilePath({"memory", "notes"}, "today.md", ".md"),
     FilePath({"memory", "notes"}, "_template.md", ".md"),
     FilePath({"memory"}, "photo.png", ".png"),
     FilePath({"docs"}, "readme.md", ".md")}

should_process_file(path) ==
    /\ "memory" \in path.parts
    /\ path.suffix \in {".json", ".md"}
    /\ path.name # "_template.md"

\* a task made by asyncio.create_task(self._delayed_update()): where it is
\* suspended, and whether cancel() has been called on it since
Task(at, cancelling) == [at |-> at, cancelling |-> cancelling]

\* Task.cancel(): nothing happens to a task that is over
Cancelled(task) ==
    IF task.at \in {"done", "cancelled"} THEN task ELSE Task(task.at, TRUE)

Changed(path) == [ev |-> "change", name |-> path]
Reindex == [ev |-> "reindex", name |-> "load_all_data"]

\* _schedule_update with a running event loop: the task in update_task is
\* cancelled and a new one replaces it; asyncio.create_task raises when the
\* calling thread has no running loop, as the watchdog observer thread
schedule_update(handler) ==
    LET cancelled ==
            IF handler.update_task = 0 THEN handler.tasks
            ELSE [handler.tasks EXCEPT ![handler.update_task] = Cancelled(@)]
    IN  IF handler.loop_running
        THEN [handler EXCEPT !.tasks = Append(cancelled, Task("sleep", FALSE)),
                             !.update_task = Len(cancelled) + 1]
        ELSE [handler EXCEPT !.tasks = cancelled]

InitWatcher ==
    /\ pc = "watching"
    /\ \E loop_running \in BOOLEAN :
          state = [pending_updates |-> {}, update_task |-> 0, tasks |-> <<>>,
                   loop_running |-> loop_running]
    /\ result = NoResult
    /\ history = <<>>
    /\ logs = <<>>

\* on_modified / on_created: directories and files that are not memory
\* files are ignored; otherwise the path is recorded and an update scheduled
OnFileEvent ==
    /\ pc = "watching"
    /\ \E path \in WatchedPaths, is_directory \in BOOLEAN :
          IF is_directory \/ ~should_process_file(path)
          THEN UNCHANGED <<state, history>>
          ELSE /\ Len(SelectSeq(history, LAMBDA e : e.ev = "change")) < MaxChanges
               /\ state' = schedule_update(
                              [state EXCEPT !.pending_updates = @ \cup {path}])
               /\ history' = Append(history, Changed(path))
    /\ UNCHANGED <<pc, result, logs>>

\* _delayed_update after asyncio.sleep(2): it returns when nothing is
\* pending; otherwise load_all_data runs and either raises, which ends the
\* run through finally, or the task goes on to await index_documents
WakeUp ==
    /\ pc = "watching"
    /\ \E t \in 1..Len(state.tasks), load \in {"return", "raise"} :
          /\ state.tasks[t] = Task("sleep", FALSE)
          /\ IF state.pending_updates = {}
             THEN /\ state' = [state EXCEPT !.tasks[t] = Task("done", FALSE)]
                  /\ UNCHANGED history
             ELSE /\ history' = Append(history, Reindex)
                  /\ state' = IF load = "return"
                              THEN [state EXCEPT !.tasks[t] = Task("index_documents", FALSE)]
                              ELSE [state EXCEPT !.tasks[t] = Task("done", FALSE),
                                                 !.pending_updates = {}]
    /\ UNCHANGED <<pc, result, logs>>

\* index_documents returns or raises: either way finally clears
\* pending_updates
FinishUpdate ==
    /\ pc = "watching"
    /\ \E t \in 1..Len(state.tasks) :
          /\ state.tasks[t] = Task("index_documents", FALSE)
          /\ state' = [state EXCEPT !.tasks[t] = Task("done", FALSE),
                                    !.pending_updates = {}]
    /\ UNCHANGED <<pc, result, history, logs>>

\* CancelledError arrives at the await the task is suspended at: the sleep
\* is outside the try, index_documents inside it, where finally clears
\* pending_updates
DeliverCancel ==
    /\ pc = "watching"
    /\ \E t \in 1..Len(state.tasks) :
          /\ state.tasks[t].cancelling
          /\ state' = IF state.tasks[t].at = "sleep"
                      THEN [state EXCEPT !.tasks[t] = Task("cancelled", FALSE)]
                      ELSE [state EXCEPT !.tasks[t] = Task("cancelled", FALSE),
                                         !.pending_updates = {}]
    /\ UNCHANGED <<pc, result, history, logs>>

NextWatcher ==
    \/ OnFileEvent
    \/ WakeUp
    \/ FinishUpdate
    \/ DeliverCancel

SpecWatcher == InitWatcher /\ [][NextWatcher]_vars

----------------------------------------------------------------------------
(* Two calls of AdaptiveRAGAgent.query on one agent, their stages          *)
(* interleaved at the awaits.  In this part pc and result hold one entry   *)
(* per call; state holds the dicts that exist (heap), the dict each call   *)
(* works on (ref), and what the stores and the LLM answer to each call     *)
(* (env).  The agent's own fields, indexer and workflow, are assigned in   *)
(* __init__ only.                                                          *)

\* the nodes added to the workflow
Nodes == {"plan_query", "retrieve_lightrag", "retrieve_chromadb",
          "evaluate_relevance", "generate_answer"}

QueryIds == {1, 2}

\* a structured and a temporal query; each store and the LLM answering or
\* failing
QueryEnvs ==
    [query : {<<"Personality">>, <<"Recently">>},
     structured : {Return([success |-> TRUE, result |-> "graph answer"]),
                   Raise("Exception", "boom")},
     vector : {Return(<<Hit(1, 0), Hit(2, 26)>>), Raise("TimeoutError", "boom")},
     client : {[create_llm |-> "return", ChatOpenAI |-> "unused"],
               [create_llm |-> "raise", ChatOpenAI |-> "raise"]},
     llm : {Return([content |-> "You discussed GraphRAG."]),
            Raise("ConnectionError", "boom")}]

\* the node function of a stage, on the state dict and the answers of the
\* call it belongs to
StageRun(node, s, e) ==
    CASE node = "plan_query" -> plan_query_node(s)
      [] node = "retrieve_lightrag" -> retrieve_lightrag_node(s, e.structured)
      [] node = "retrieve_chromadb" -> retrieve_chromadb_node(s, e.vector)
      [] node = "evaluate_relevance" -> evaluate_relevance_node(s)
      [] node = "generate_answer" -> generate_answer_node(s, e.client, e.llm)

\* the edges of the compiled workflow
StageAfter(node, s) ==
    CASE node = "plan_query" -> "retrieve_lightrag"
      [] node = "retrieve_lightrag" -> EdgeTarget(should_retrieve_chromadb(s))
      [] node = "retrieve_chromadb" -> "evaluate_relevance"
      [] node = "evaluate_relevance" -> "generate_answer"
      [] node = "generate_answer" -> "END"

\* faulty variant: query keeps its state in one dict of the agent
FreshState_shared(heap) == 1

\* initial_state = {...}: the dict display makes a new dict at every call
FreshState(heap) == Len(heap) + 1

Allocate(heap, ref, dict) ==
    IF ref > Len(heap) THEN Append(heap, dict) ELSE [heap EXCEPT ![ref] = dict]

\* the dict query returns, built from final_state
QueryResult(final_state) ==
    [query |-> final_state.query,
     final_answer |-> Get(final_state, "final_answer", ""),
     relevant_docs |-> Get(final_state, "relevant_docs", <<>>),
     query_plan |-> Get(final_state, "query_plan", EmptyDict),
     num_results |-> Len(Get(final_state, "relevant_docs", <<>>))]

InitConcurrent ==
    /\ pc = [q \in QueryIds |-> "idle"]
    /\ \E env \in [QueryIds -> QueryEnvs] :
          state = [heap |-> <<>>, ref |-> [q \in QueryIds |-> 0], env |-> env,
                   overlapped |-> FALSE]
    /\ result = [q \in QueryIds |-> NoResult]
    /\ history = <<>>
    /\ logs = <<>>

\* another call is between its first and its last stage
OtherRunning(q) == \E o \in QueryIds \ {q} : pc[o] \in Nodes

ConcurrentStart ==
    /\ \E q \in QueryIds :
          /\ pc[q] = "idle"
          /\ LET ref == FreshState(state.heap)
             IN  state' = [state EXCEPT
                              !.heap = Allocate(@, ref, initial_state(state.env[q].query)),
                              !.ref[q] = ref,
                              !.overlapped = @ \/ OtherRunning(q)]
          /\ pc' = [pc EXCEPT ![q] = "plan_query"]
    /\ UNCHANGED <<result, history, logs>>

\* one node of one call runs from await to await
ConcurrentStage ==
    /\ \E q \in QueryIds :
          /\ pc[q] \in Nodes
          /\ LET r == StageRun(pc[q], state.heap[state.ref[q]], state.env[q])
             IN  /\ state' = [state EXCEPT !.heap[state.ref[q]] = r.state,
                                           !.overlapped = @ \/ OtherRunning(q)]
                 /\ pc' = [pc EXCEPT ![q] = IF r.raised THEN "raised"
                                            ELSE StageAfter(pc[q], r.state)]
    /\ UNCHANGED <<result, history, logs>>

ConcurrentReturn ==
    /\ \E q \in QueryIds :
          /\ pc[q] = "END"
          /\ result' = [result EXCEPT ![q] = QueryResult(state.heap[state.ref[q]])]
          /\ pc' = [pc EXCEPT ![q] = "returned"]
    /\ UNCHANGED <<state, history, logs>>

NextConcurrent ==
    \/ ConcurrentStart
    \/ ConcurrentStage
    \/ ConcurrentReturn

SpecConcurrent == InitConcurrent /\ [][NextConcurrent]_vars

----------------------------------------------------------------------------
(* Reading the observations                                                *)

Events(ev, name) ==
    {i \in 1..Len(history) : history[i].ev = ev /\ history[i].name = name}

Begun(node) == Events("begin", node) # {}
Ended(node) == Events("end", node) # {}
CallCount(target) == Cardinality(Events("call", target))

\* the only call made to target (used where CallCount(target) = 1)
TheCall(target) == history[CHOOSE i \in Events("call", target) : TRUE]

TypeOK ==
    /\ pc \in Nodes \cup {"idle", "END", "returned", "raised"}
    /\ pc # "idle" => state.final_answer \in STRING

----------------------------------------------------------------------------
(* Properties of one workflow run                                          *)

\* C1: every run of the workflow ends at END, whatever the stores and the
\* LLM do: no run ever sits in an error terminal state, i.e. no exception
\* leaves a node and ends the run before generate_answer has finished.
C1_NoErrorTerminal == pc # "raised"

\* C2: when query has returned, final_answer is present in the result, was
\* written by generate_answer, and is the no-information message when there
\* is no candidate, otherwise the text the LLM returned, the network-issue
\* message after a connection/timeout error of the LLM call, or the error
\* message with the exception text after any other exception.
C2_FinalAnswerSet ==
    pc = "returned" =>
        /\ "final_answer" \in DOMAIN result
        /\ Ended("generate_answer")
        /\ IF result.relevant_docs = <<>>
           THEN result.final_answer = NoInformationMessage
           ELSE /\ CallCount("llm.ainvoke") = 1
                /\ LET o == TheCall("llm.ainvoke").outcome
                   IN  result.final_answer =
                         IF o.kind = "return" THEN o.value.content
                         ELSE IF o.exc \in ConnectionErrors THEN NetworkIssueMessage
                         ELSE ErrorMessage(o.text)

\* C2 witness: a query returned the error message of a failed LLM call
C2_Witness ==
    /\ pc = "returned"
    /\ result.relevant_docs # <<>>
    /\ result.final_answer = ErrorMessage("boom")

\* C3: an exception of the structured store, of either class, leaves
\* retrieve_lightrag_node with lightrag_docs empty and the node finished; an
\* exception of the vector store does the same for retrieve_chromadb_node
\* and chromadb_docs; within a node the two classes give the same state.
C3_FailSoft ==
    /\ \A i \in Events("call", "query_structured_memory") :
          history[i].outcome.kind = "raise" =>
              /\ i < Len(history)
              /\ history[i + 1] = End("retrieve_lightrag")
              /\ state.lightrag_docs = <<>>
    /\ \A i \in Events("call", "query_conversations") :
          history[i].outcome.kind = "raise" =>
              /\ i < Len(history)
              /\ history[i + 1] = End("retrieve_chromadb")
              /\ state.chromadb_docs = <<>>
    /\ pc = "retrieve_lightrag" =>
          \A e1, e2 \in Raises :
              /\ ~retrieve_lightrag_node(state, e1).raised
              /\ retrieve_lightrag_node(state, e1).state
                   = retrieve_lightrag_node(state, e2).state
    /\ pc = "retrieve_chromadb" =>
          \A e1, e2 \in Raises :
              /\ ~retrieve_chromadb_node(state, e1).raised
              /\ retrieve_chromadb_node(state, e1).state
                   = retrieve_chromadb_node(state, e2).state

\* C3 witness: the structured store raised a timeout, the vector store a
\* generic exception, and the run went on to evaluation
C3_Witness ==
    /\ pc = "evaluate_relevance"
    /\ CallCount("query_structured_memory") = 1
    /\ TheCall("query_structured_memory").outcome = Raise("TimeoutError", "boom")
    /\ CallCount("query_conversations") = 1
    /\ TheCall("query_conversations").outcome = Raise("Exception", "boom")

\* the candidates of the ranked list by origin, in ranked order
IsLightragOrigin(doc) == Get(doc, "source", "unknown") = "lightrag"
StructuredPart(docs) == SelectSeq(docs, IsLightragOrigin)
NotLightragOrigin(doc) == ~IsLightragOrigin(doc)
VectorPart(docs) == SelectSeq(docs, NotLightragOrigin)

\* what the vector store handed back in this run: nothing when it was
\* skipped or raised
VectorResponse ==
    IF CallCount("query_conversations") = 1
       /\ TheCall("query_conversations").outcome.kind = "return"
    THEN TheCall("query_conversations").outcome.value
    ELSE <<>>

\* the candidate the structured store's own answer stands for
StructuredCandidate ==
    IF CallCount("query_structured_memory") = 1
       /\ TheCall("query_structured_memory").outcome.kind = "return"
       /\ Get(TheCall("query_structured_memory").outcome.value, "success", FALSE)
       /\ Get(TheCall("query_structured_memory").outcome.value, "result", "") # ""
    THEN <<[content |-> TheCall("query_structured_memory").outcome.value.result,
            source |-> "lightrag",
            mode |-> TheCall("query_structured_memory").args.mode,
            relevance_score |-> LightragRelevance]>>
    ELSE <<>>

\* C4: once evaluation has run, the vector-origin candidates of the ranked
\* list, in their ranked order, are determined by the vector store's
\* response alone, and the structured candidate by the structured store's
\* response alone: neither depends on whether the other store succeeded,
\* failed or was skipped.
C4_StoresIndependent ==
    Ended("evaluate_relevance") =>
        /\ VectorPart(state.relevant_docs)
              = SortByRelevance(ScoreChromadb(VectorResponse))
        /\ StructuredPart(state.relevant_docs) = StructuredCandidate

\* C4 witness: the structured store raised and two vector hits were ranked
C4_Witness ==
    /\ Ended("evaluate_relevance")
    /\ CallCount("query_structured_memory") = 1
    /\ TheCall("query_structured_memory").outcome.kind = "raise"
    /\ Len(VectorPart(state.relevant_docs)) = 2

\* "the query contains a structured / temporal keyword"
HasStructuredKeyword(q) == AnyKeywordIn(structured_keywords, Lower(q))
HasTemporalKeyword(q) == AnyKeywordIn(temporal_keywords, Lower(q))

\* C5: a query with both a structured and a temporal keyword leaves
\* plan_query_node with use_lightrag = false in its plan.
C5_TemporalPrecedence ==
    (pc = "retrieve_lightrag"
     /\ HasStructuredKeyword(state.query) /\ HasTemporalKeyword(state.query))
        => state.query_plan.use_lightrag = FALSE

\* C5 witness: the plan of the query "Personality Recently" has been made
C5_Witness ==
    /\ pc = "retrieve_lightrag"
    /\ state.query = <<"Personality", "Recently">>

DefaultPlan ==
    [use_lightrag |-> TRUE, use_chromadb |-> TRUE,
     lightrag_mode |-> "hybrid", chromadb_k |-> 5]

\* C6: plan_query_node finishes for every query, the empty one included,
\* without raising; the plan has exactly the four fields, a mode among
\* naive/local/global/hybrid and a positive k; a query with no keyword of
\* either set gets the default plan.
C6_PlanningTotal ==
    /\ pc = "raised" => Ended("plan_query")
    /\ pc = "retrieve_lightrag" =>
          /\ DOMAIN state.query_plan
                = {"use_lightrag", "use_chromadb", "lightrag_mode", "chromadb_k"}
          /\ state.query_plan.use_lightrag \in BOOLEAN
          /\ state.query_plan.use_chromadb \in BOOLEAN
          /\ state.query_plan.lightrag_mode \in {"naive", "local", "global", "hybrid"}
          /\ state.query_plan.chromadb_k \in Nat \ {0}
          /\ (~HasStructuredKeyword(state.query) /\ ~HasTemporalKeyword(state.query))
                => state.query_plan = DefaultPlan

\* C6 witness: the empty query has been planned
C6_Witness ==
    /\ pc = "retrieve_lightrag"
    /\ state.query = <<>>
    /\ state.query_plan = DefaultPlan

\* C7: the plan plan_query_node returns is fixed by the two facts S (structured keyword present) and
\* T (temporal keyword present): mode is local iff S, else hybrid;
\* use_lightrag is false iff T; k is 10 iff T, else 5.
C7_PlanIsFunctionOfST ==
    pc = "retrieve_lightrag" =>
        state.query_plan =
            [use_lightrag |-> ~HasTemporalKeyword(state.query),
             use_chromadb |-> TRUE,
             lightrag_mode |->
                IF HasStructuredKeyword(state.query) THEN "local" ELSE "hybrid",
             chromadb_k |-> IF HasTemporalKeyword(state.query) THEN 10 ELSE 5]

\* C7 witness: S and T together gave (false, local, 10)
C7_Witness ==
    /\ pc = "retrieve_lightrag"
    /\ HasStructuredKeyword(state.query)
    /\ state.query_plan.use_lightrag = FALSE
    /\ state.query_plan.lightrag_mode = "local"
    /\ state.query_plan.chromadb_k = 10

LightragLogs ==
    {i \in 1..Len(logs) : logs[i].msg \in {"LightRAG connection/timeout error",
                                          "LightRAG retrieval error"}}

\* C8: with use_lightrag = false in the plan the structured store is never
\* called, lightrag_docs is empty after retrieve_lightrag, and nothing is
\* logged as a LightRAG failure; so a query with a temporal keyword never
\* reaches the structured store.
C8_StructuredSkipped ==
    /\ (Ended("plan_query") /\ ~Get(state.query_plan, "use_lightrag", TRUE)) =>
          /\ CallCount("query_structured_memory") = 0
          /\ LightragLogs = {}
          /\ Ended("retrieve_lightrag") => state.lightrag_docs = <<>>
    /\ (pc # "idle" /\ HasTemporalKeyword(state.query)) =>
          CallCount("query_structured_memory") = 0

\* C8 witness: a temporal query ran to its end
C8_Witness ==
    /\ pc = "returned"
    /\ HasTemporalKeyword(state.query)
    /\ result.query_plan.use_lightrag = FALSE

UseChromadb == Get(Get(state, "query_plan", EmptyDict), "use_chromadb", TRUE)

\* C9: with use_chromadb = false in the plan the vector store is never
\* called and retrieve_chromadb never runs: evaluate_relevance begins right
\* after retrieve_lightrag ends, on a state with chromadb_docs empty, the
\* state retrieve_chromadb_node's short circuit would have returned.  The
\* stage after retrieve_lightrag is retrieve_chromadb iff plan.use_chromadb.
C9_VectorSkipped ==
    /\ ~UseChromadb =>
          /\ CallCount("query_conversations") = 0
          /\ ~Begun("retrieve_chromadb")
          /\ \A i \in Events("begin", "evaluate_relevance") :
                i > 1 /\ history[i - 1] = End("retrieve_lightrag")
          /\ pc = "evaluate_relevance" =>
                /\ state.chromadb_docs = <<>>
                /\ \A o \in VectorOutcomes(5) :
                      retrieve_chromadb_node(state, o).state = state
    /\ \A i \in Events("end", "retrieve_lightrag") :
          /\ i = Len(history) =>
                pc = IF UseChromadb THEN "retrieve_chromadb" ELSE "evaluate_relevance"
          /\ i < Len(history) =>
                history[i + 1] = IF UseChromadb THEN Begin("retrieve_chromadb")
                                 ELSE Begin("evaluate_relevance")

\* C9 witness: a run whose plan has use_chromadb = false reached END after a
\* successful structured retrieval
C9_Witness ==
    /\ pc = "END"
    /\ ~UseChromadb
    /\ state.lightrag_docs # <<>>

IsPrefix(a, b) == Len(a) <= Len(b) /\ a = SubSeq(b, 1, Len(a))

IsBegin(e) == e.ev = "begin"
BegunNodes ==
    LET b == SelectSeq(history, IsBegin) IN [i \in 1..Len(b) |-> b[i].name]

Before(ev1, name1, i) == \E j \in Events(ev1, name1) : j < i

\* C10: the stages of one query begin in the order plan_query,
\* retrieve_lightrag, retrieve_chromadb (left out only when the plan says
\* so), evaluate_relevance, generate_answer, each at most once; a stage
\* begins only when the one before it has ended, and a stage that ends is
\* the one that began last; the vector store is called only after
\* retrieve_lightrag has ended, evaluation begins only after both retrieval
\* stages have ended or been skipped, and the LLM is called only after
\* evaluation has ended.
C10_StageOrder ==
    /\ \/ IsPrefix(BegunNodes, <<"plan_query", "retrieve_lightrag", "retrieve_chromadb",
                                 "evaluate_relevance", "generate_answer">>)
       \/ /\ IsPrefix(BegunNodes, <<"plan_query", "retrieve_lightrag",
                                    "evaluate_relevance", "generate_answer">>)
          /\ Begun("evaluate_relevance") => ~UseChromadb
    /\ \A i \in 2..Len(history) :
          /\ history[i].ev = "begin" => history[i - 1].ev = "end"
          /\ history[i].ev = "end" =>
                \/ history[i - 1] = Begin(history[i].name)
                \/ /\ i > 2
                   /\ history[i - 1].ev = "call"
                   /\ history[i - 2] = Begin(history[i].name)
    /\ \A i \in Events("call", "query_conversations") :
          Before("end", "retrieve_lightrag", i)
    /\ \A i \in Events("begin", "evaluate_relevance") :
          /\ Before("end", "retrieve_lightrag", i)
          /\ Begun("retrieve_chromadb") => Before("end", "retrieve_chromadb", i)
    /\ \A i \in Events("call", "llm.ainvoke") :
          Before("end", "evaluate_relevance", i)

\* C10 witness: a run in which both stores and the LLM were called has ended
C10_Witness ==
    /\ pc = "END"
    /\ CallCount("query_structured_memory") = 1
    /\ CallCount("query_conversations") = 1
    /\ CallCount("llm.ainvoke") = 1

----------------------------------------------------------------------------
(* Properties of evaluation and of answer generation                       *)

\* the structured store answered the call of this run with success and a
\* non-empty text
StructuredAnswered ==
    /\ CallCount("query_structured_memory") = 1
    /\ TheCall("query_structured_memory").outcome.kind = "return"
    /\ Get(TheCall("query_structured_memory").outcome.value, "success", FALSE)
    /\ Get(TheCall("query_structured_memory").outcome.value, "result", "") # ""

\* C11: once evaluation has run, the ranked list holds exactly one candidate
\* of structured origin, with relevance_score 0.9 and the store's text, when
\* the structured store reported success with non-empty text; it holds none
\* when the store reported success=false, raised, was skipped or returned
\* empty text.
C11_StructuredContribution ==
    Ended("evaluate_relevance") =>
        LET part == StructuredPart(state.relevant_docs)
        IN  IF StructuredAnswered
            THEN /\ Len(part) = 1
                 /\ part[1].relevance_score = <<9, 10>>
                 /\ part[1].content
                      = TheCall("query_structured_memory").outcome.value.result
            ELSE part = <<>>

\* C11 witness: the store reported success with an empty text and no
\* structured candidate was ranked, next to a ranked vector hit
C11_Witness ==
    /\ Ended("evaluate_relevance")
    /\ CallCount("query_structured_memory") = 1
    /\ TheCall("query_structured_memory").outcome = Return([success |-> TRUE, result |-> ""])
    /\ StructuredPart(state.relevant_docs) = <<>>
    /\ Len(state.relevant_docs) = 1

\* the candidates of the ranked list that are this hit with a relevance_score
\* added
Occurrences(docs, hit) ==
    {j \in 1..Len(docs) :
        /\ DOMAIN docs[j] = DOMAIN hit \cup {"relevance_score"}
        /\ \A k \in DOMAIN hit : docs[j][k] = hit[k]}

\* C12: once evaluation has run, every hit of the vector response whose
\* distance is strictly below 1.5 is in the ranked list exactly once, every
\* hit at 1.5 or above is not in it, and the list has no other candidate of
\* vector origin.
C12_CutoffExclusive ==
    Ended("evaluate_relevance") =>
        LET hits == state.chromadb_docs
            kept == {i \in 1..Len(hits) : 2 * Similarity(hits[i]).value < 3 * ScoreUnit}
        IN  /\ \A i \in 1..Len(hits) :
                  Cardinality(Occurrences(state.relevant_docs, hits[i]))
                     = IF i \in kept THEN 1 ELSE 0
            /\ Len(VectorPart(state.relevant_docs)) = Cardinality(kept)

\* C12 witness: of two hits, the one just below 1.5 was ranked and the one at
\* exactly 1.5 was dropped
C12_Witness ==
    /\ Ended("evaluate_relevance")
    /\ state.chromadb_docs = <<GivenHit(1, Float(27)), GivenHit(2, Float(26))>>
    /\ Len(state.relevant_docs) = 1
    /\ state.relevant_docs[1].content = "chunk 2"

\* C13: every candidate of the ranked list carries a relevance_score between
\* 0 and 1; a vector candidate's is 1/(1 + distance), which is above 0, and
\* of two ranked vector candidates the one with the smaller distance has the
\* strictly larger relevance_score.
C13_RelevanceRange ==
    Ended("evaluate_relevance") =>
        LET ranked == state.relevant_docs
        IN  /\ \A j \in 1..Len(ranked) :
                  /\ "relevance_score" \in DOMAIN ranked[j]
                  /\ ranked[j].relevance_score[2] > 0
                  /\ 0 <= ranked[j].relevance_score[1]
                  /\ ranked[j].relevance_score[1] <= ranked[j].relevance_score[2]
                  /\ NotLightragOrigin(ranked[j]) =>
                        /\ ranked[j].relevance_score[1] > 0
                        /\ ranked[j].relevance_score[1]
                              * (ScoreUnit + ranked[j].similarity_score.value)
                             = ranked[j].relevance_score[2] * ScoreUnit
            /\ \A i, j \in 1..Len(ranked) :
                  /\ NotLightragOrigin(ranked[i])
                  /\ NotLightragOrigin(ranked[j])
                  /\ ranked[i].similarity_score.value < ranked[j].similarity_score.value
                  => ranked[j].relevance_score[1] * ranked[i].relevance_score[2]
                        < ranked[i].relevance_score[1] * ranked[j].relevance_score[2]

\* C13 witness: hits at distance 0 and just below 1.5 were both ranked
C13_Witness ==
    /\ Ended("evaluate_relevance")
    /\ \E i, j \in 1..Len(state.relevant_docs) :
          /\ NotLightragOrigin(state.relevant_docs[i])
          /\ NotLightragOrigin(state.relevant_docs[j])
          /\ state.relevant_docs[i].similarity_score = Float(0)
          /\ state.relevant_docs[j].similarity_score = Float(26)

\* the candidates that survive filtering, in input order: structured first,
\* then the vector hits as the store returned them
Survivors == ScoreLightrag(state.lightrag_docs) \o ScoreChromadb(state.chromadb_docs)

PositionIn(docs, doc) == CHOOSE i \in 1..Len(docs) : docs[i] = doc

SameScore(a, b) == a[1] * b[2] = b[1] * a[2]

\* C14: once evaluation has run, the ranked list is a permutation of the
\* surviving candidates, in non-increasing relevance_score, and candidates
\* of equal relevance_score stand in input order (the structured candidate
\* before vector candidates, vector candidates in the store's order).
C14_RankedStable ==
    Ended("evaluate_relevance") =>
        LET ranked == state.relevant_docs
        IN  /\ Len(ranked) = Len(Survivors)
            /\ \A i \in 1..Len(Survivors) : \E j \in 1..Len(ranked) : ranked[j] = Survivors[i]
            /\ \A i, j \in 1..Len(ranked) :
                  i < j =>
                      /\ ~ScoreLess(ranked[i].relevance_score, ranked[j].relevance_score)
                      /\ SameScore(ranked[i].relevance_score, ranked[j].relevance_score)
                           => PositionIn(Survivors, ranked[i]) < PositionIn(Survivors, ranked[j])

\* C14 witness: a vector hit was ranked above the structured candidate, and
\* the structured candidate above two vector hits of the same relevance 0.9,
\* which kept the store's order
C14_Witness ==
    /\ Ended("evaluate_relevance")
    /\ Len(state.relevant_docs) = 4
    /\ state.relevant_docs[1].content = "chunk 3"
    /\ IsLightragOrigin(state.relevant_docs[2])
    /\ state.relevant_docs[3].content = "chunk 1"
    /\ state.relevant_docs[4].content = "chunk 2"
    /\ SameScore(state.relevant_docs[2].relevance_score, state.relevant_docs[4].relevance_score)

\* the ranked list as contents with their relevance_score
Ranking(docs) ==
    [i \in 1..Len(docs) |-> <<docs[i].content, docs[i].relevance_score>>]

\* a hit whose score is None or not a number, read as score 0
ScoreOrZero(doc) ==
    IF Similarity(doc).type = "float" THEN doc
    ELSE [doc EXCEPT !.similarity_score = Float(0)]

C16_EmptyShortCircuit ==
    Ended("generate_answer") =>
        /\ state.relevant_docs = <<>> =>
              /\ state.final_answer = NoInformationMessage
              /\ CallCount("llm.ainvoke") = 0
        /\ (state.relevant_docs # <<>> /\ state.final_answer = NoInformationMessage) =>
              /\ CallCount("llm.ainvoke") = 1
              /\ TheCall("llm.ainvoke").outcome = Return([content |-> NoInformationMessage])
        /\ \A i \in Events("call", "llm.ainvoke") :
              history[i].outcome.kind = "raise" =>
                  state.final_answer # NoInformationMessage

\* C16 witness: both stores were skipped and generate_answer ended with the
\* no-information message without a call
C16_Witness ==
    /\ Ended("generate_answer")
    /\ ~Get(state.query_plan, "use_lightrag", TRUE)
    /\ ~Get(state.query_plan, "use_chromadb", TRUE)
    /\ CallCount("query_structured_memory") = 0
    /\ CallCount("query_conversations") = 0
    /\ CallCount("llm.ainvoke") = 0
    /\ state.final_answer = NoInformationMessage

\* C17: the context of the LLM call holds the first min(n, 5) candidates of
\* the ranked list, one part each, in ranked order, and no candidate ranked
\* sixth or lower.
C17_ContextCap ==
    CallCount("llm.ainvoke") = 1 =>
        LET ranked == state.relevant_docs
            context == TheCall("llm.ainvoke").args.context
        IN  /\ Len(ranked) >= 1
            /\ Len(context) = IF Len(ranked) < 5 THEN Len(ranked) ELSE 5
            /\ \A i \in 1..Len(context) :
                  /\ context[i].index = i
                  /\ context[i].content = ranked[i].content
                  /\ context[i].score = ranked[i].relevance_score
                  /\ context[i].source = Get(ranked[i], "source", "unknown")
            /\ \A j \in 6..Len(ranked) :
                  \A i \in 1..Len(context) : context[i].content # ranked[j].content

\* C17 witness: seven candidates were ranked and the LLM was called
C17_Witness ==
    /\ CallCount("llm.ainvoke") = 1
    /\ Len(state.relevant_docs) = 7
    /\ Len(TheCall("llm.ainvoke").args.context) = 5

\* C18: after a connection or timeout error of the LLM call the answer is
\* the network-issue message; after any other exception it is the error
\* message with the exception's text; the two messages differ from each
\* other and from the no-information message.
C18_LLMFailureClasses ==
    \A i \in Events("call", "llm.ainvoke") :
        history[i].outcome.kind = "raise" =>
            /\ Ended("generate_answer")
            /\ history[i].outcome.exc \in {"ConnectionError", "TimeoutError"} =>
                  state.final_answer = NetworkIssueMessage
            /\ history[i].outcome.exc \notin {"ConnectionError", "TimeoutError"} =>
                  /\ state.final_answer = ErrorMessage(history[i].outcome.text)
                  /\ state.final_answer # NetworkIssueMessage
            /\ state.final_answer # NoInformationMessage

\* C18 witness: the LLM call raised a timeout and the run ended with the
\* network-issue message
C18_Witness ==
    /\ pc = "END"
    /\ CallCount("llm.ainvoke") = 1
    /\ TheCall("llm.ainvoke").outcome = Raise("TimeoutError", "boom")
    /\ state.final_answer = NetworkIssueMessage

\* C19: generate_answer_node never raises into the workflow: once begun it
\* has ended, whether the LLM client could be obtained or not.
C19_SynthesizerNeverRaises ==
    Begun("generate_answer") => Ended("generate_answer")

\* C20: in one query each of the structured store, the vector store and the
\* LLM is called at most once, and once generate_answer has run on a
\* non-empty ranked list the LLM has been called exactly once.
C20_SingleAttempt ==
    /\ CallCount("query_structured_memory") <= 1
    /\ CallCount("query_conversations") <= 1
    /\ CallCount("llm.ainvoke") <= 1
    /\ (Begun("generate_answer") /\ state.relevant_docs # <<>>) =>
          CallCount("llm.ainvoke") = 1

----------------------------------------------------------------------------
(* Properties of the plan and of the structured candidate's place          *)

\* C21: from the end of plan_query on, query_plan is the plan that
\* plan_query_node produces for the query, field for field, through both
\* retrievals, evaluation and generation, and the query_plan of the
\* returned result is that plan.
C21_PlanImmutable ==
    /\ Ended("plan_query") =>
          state.query_plan = plan_query_node(initial_state(state.query)).state.query_plan
    /\ ~Begun("plan_query") /\ pc # "idle" => state.query_plan = EmptyDict
    /\ pc = "returned" =>
          result.query_plan = plan_query_node(initial_state(result.query)).state.query_plan

\* C21 witness: a query whose plan differs from the default in three fields
\* has gone through every stage and returned
C21_Witness ==
    /\ pc = "returned"
    /\ Ended("retrieve_chromadb")
    /\ Ended("generate_answer")
    /\ result.query_plan = [use_lightrag |-> FALSE, use_chromadb |-> TRUE,
                            lightrag_mode |-> "local", chromadb_k |-> 10]

\* C26: every plan plan_query_node writes has use_chromadb = true; in a run
\* started by query, retrieve_chromadb follows retrieve_lightrag, evaluation
\* begins only after retrieve_chromadb has ended, and a store is consulted
\* by every plan.
C26_VectorAlwaysConsulted ==
    /\ Ended("plan_query") =>
          /\ "use_chromadb" \in DOMAIN state.query_plan
          /\ state.query_plan.use_chromadb = TRUE
          /\ state.query_plan.use_lightrag \/ state.query_plan.use_chromadb
    /\ \A i \in Events("end", "retrieve_lightrag") :
          IF i = Len(history) THEN pc = "retrieve_chromadb"
          ELSE history[i + 1] = Begin("retrieve_chromadb")
    /\ \A i \in Events("begin", "evaluate_relevance") :
          i > 1 /\ history[i - 1] = End("retrieve_chromadb")

\* C26 witness: a structured, non-temporal query ran retrieve_chromadb and
\* went on to evaluation
C26_Witness ==
    /\ Begun("evaluate_relevance")
    /\ Ended("retrieve_chromadb")
    /\ HasStructuredKeyword(state.query)
    /\ ~HasTemporalKeyword(state.query)
    /\ CallCount("query_conversations") = 1

\* the structured store's document has content, so evaluation makes it a
\* candidate
StructuredYields ==
    \E i \in 1..Len(state.lightrag_docs) : Get(state.lightrag_docs[i], "content", "") # ""

\* a context block of the LLM call comes from the structured store
StructuredInContext ==
    \E i \in 1..Len(TheCall("llm.ainvoke").args.context) :
        TheCall("llm.ainvoke").args.context[i].source = "lightrag"

\* the vector hits of this query that rank above 0.9: distance below 1/9
HitsAboveStructured ==
    {i \in 1..Len(state.chromadb_docs) : 9 * Similarity(state.chromadb_docs[i]).value < ScoreUnit}

\* C27 as stated: whenever the structured store yields a candidate and the
\* LLM is called, a context block is the structured candidate, whatever
\* the vector hits (here with at most five hits, the k of a plan that uses
\* the structured store).
C27_StructuredAlwaysInContext ==
    (CallCount("llm.ainvoke") = 1 /\ StructuredYields /\ Len(state.chromadb_docs) <= 5) =>
        StructuredInContext

\* C27 amended: whenever the structured store yields a candidate and the
\* LLM is called, the structured candidate is among the context blocks if
\* and only if fewer than five vector hits of the query have a distance
\* below 1/9 (a relevance_score above 0.9).
C27_StructuredInContextUnlessOutranked ==
    (CallCount("llm.ainvoke") = 1 /\ StructuredYields) =>
        (StructuredInContext <=> Cardinality(HitsAboveStructured) < 5)

\* C27 witness: five hits at distance 0 outranked the structured candidate
\* and the LLM was called without it
C27_Witness ==
    /\ CallCount("llm.ainvoke") = 1
    /\ StructuredYields
    /\ Len(state.chromadb_docs) = 5
    /\ Cardinality(HitsAboveStructured) = 5
    /\ ~StructuredInContext

----------------------------------------------------------------------------
(* Properties of HybridIndexer                                             *)

\* the store calls of one index_document call, by name, in order
CallNames(e) == [i \in 1..Len(e.calls) |-> e.calls[i].name]

\* the index_document calls made so far
IndexedDocs == {history[i] : i \in Events("index_document", "index_document")}

\* the call of an index_document call to the named store method succeeded
Stored(e, names) ==
    \E i \in 1..Len(e.calls) : e.calls[i].name \in names /\ e.calls[i].outcome.kind = "return"

\* the call of an index_document call to the named store method failed
Failed(e, names) ==
    \E i \in 1..Len(e.calls) : e.calls[i].name \in names /\ e.calls[i].outcome.kind = "raise"

ChromaMethods == {"add_conversation", "add_memory_snapshot"}

\* C23: index_document sends a document of a LightRAG type to LightRAG
\* only, one of a ChromaDB type to ChromaDB only (a conversation through
\* add_conversation, others through add_memory_snapshot), and any other
\* document, one without a type included, to LightRAG and then to ChromaDB
\* whether or not the LightRAG insert failed; each call returns a result.
C23_RoutingByType ==
    /\ pc \in {"index_documents", "returned"}
    /\ Len(history) = state.next - 1
    /\ \A e \in IndexedDocs :
          LET doc_type == Get(e.doc, "type", "unknown")
          IN  /\ e.result.doc_type = doc_type
              /\ CallNames(e) =
                    IF doc_type \in {"personality", "values", "thinking_patterns",
                                     "language_style", "knowledge", "person_profile",
                                     "relationship", "ecological_system",
                                     "social_identity", "timeline_snapshot"}
                    THEN <<"rag.ainsert">>
                    ELSE IF doc_type = "conversation" THEN <<"add_conversation">>
                    ELSE IF doc_type \in {"short_term_memory", "notes"}
                    THEN <<"add_memory_snapshot">>
                    ELSE <<"rag.ainsert", "add_memory_snapshot">>

\* C23 witness: for a document of neither class the LightRAG insert failed
\* and ChromaDB was called all the same
C23_Witness ==
    \E e \in IndexedDocs :
        /\ Get(e.doc, "type", "unknown") = "article"
        /\ Failed(e, {"rag.ainsert"})
        /\ Stored(e, ChromaMethods)

\* C28: result["lightrag"] is true only if the LightRAG insert succeeded,
\* and after a failed insert it is false with a LightRAG error entry in
\* result["errors"]; the same for result["chromadb"] and the ChromaDB call.
C28_TruthfulResult ==
    \A e \in IndexedDocs :
        /\ e.result.lightrag => Stored(e, {"rag.ainsert"})
        /\ Failed(e, {"rag.ainsert"}) =>
              /\ ~e.result.lightrag
              /\ \E i \in 1..Len(e.result.errors) : e.result.errors[i] = "LightRAG error: boom"
        /\ e.result.chromadb => Stored(e, ChromaMethods)
        /\ Failed(e, ChromaMethods) =>
              /\ ~e.result.chromadb
              /\ \E i \in 1..Len(e.result.errors) : e.result.errors[i] = "ChromaDB error: boom"

\* the documents indexed so far that a predicate holds of
CountIndexed(P(_)) == Cardinality({i \in Events("index_document", "index_document") : P(history[i])})

InNeither(e) == ~Stored(e, {"rag.ainsert"}) /\ ~Stored(e, ChromaMethods)

\* C29: the summary of index_documents partitions the documents: the four
\* counters add up to total, and failed counts exactly the documents that
\* were stored in neither store.
C29_SummaryPartition ==
    pc = "returned" =>
        /\ result.total = Len(state.documents)
        /\ result.lightrag_count + result.chromadb_count + result.both_count
              + result.failed = result.total
        /\ result.failed = CountIndexed(InNeither)

----------------------------------------------------------------------------
(* Properties of the token-usage queue                                     *)

\* C24: the pending queue of an agent never holds more than 50 records.
C24_PendingBounded ==
    Len(state.pending) <= max_pending_records

\* how often the record with this id is in a list of records
CountId(records, id) == Cardinality({i \in 1..Len(records) : records[i].id = id})

\* C25: whenever no flush is under way, every record queued with
\* token-usage data is in the table exactly once and not in the queue, or
\* in the queue exactly once and not in the table.
C25_NoRecordLost ==
    (~state.queue_flush.active /\ ~state.cleanup_flush.active) =>
        \A i \in 1..Len(history) :
            history[i].has_usage =>
                CountId(state.table, history[i].id) + CountId(state.pending, history[i].id) = 1

----------------------------------------------------------------------------
(* Properties of the file watcher                                          *)

\* the accepted changes that no start of a re-index run has followed
Uncovered ==
    {history[i].name : i \in {j \in 1..Len(history) :
                                 /\ history[j].ev = "change"
                                 /\ \A k \in j + 1..Len(history) : history[k].ev # "reindex"}}

\* C30: no accepted change is dropped: a change that no re-index run has
\* started after is still in pending_updates, whatever the handler's tasks
\* were doing when it arrived.
C30_NoChangeLost ==
    Uncovered \subseteq state.pending_updates

----------------------------------------------------------------------------
(* Properties of concurrent queries                                        *)

\* the run of one query alone against the answers e: the nodes applied one
\* after the other to the initial state, as far as the run gets
Alone(e) ==
    LET planned == plan_query_node(initial_state(e.query))
        structured == retrieve_lightrag_node(planned.state, e.structured)
        vector == IF should_retrieve_chromadb(structured.state) = "retrieve_chromadb"
                  THEN retrieve_chromadb_node(structured.state, e.vector)
                  ELSE structured
        evaluated == evaluate_relevance_node(vector.state)
    IN  generate_answer_node(evaluated.state, e.client, e.llm)

\* C22: under every interleaving of the stages of two queries on one agent,
\* a query that has reached END holds the plan, the store results, the
\* ranked candidates and the final answer of its run alone against the
\* same answers, returns the result of that run, and ends in an error only
\* if its run alone does.
C22_QueriesIndependent ==
    \A q \in QueryIds :
        /\ pc[q] \in {"END", "returned"} =>
              /\ ~Alone(state.env[q]).raised
              /\ state.heap[state.ref[q]] = Alone(state.env[q]).state
        /\ pc[q] = "returned" => result[q] = QueryResult(Alone(state.env[q]).state)
        /\ pc[q] = "raised" => Alone(state.env[q]).raised

\* C22 witness: two queries with different plans and different answers ran
\* with their stages interleaved and both returned
C22_Witness ==
    /\ pc = [q \in QueryIds |-> "returned"]
    /\ state.overlapped
    /\ result[1].query_plan.use_lightrag
    /\ ~result[2].query_plan.use_lightrag
    /\ result[1].final_answer = "You discussed GraphRAG."
    /\ result[2].final_answer = NetworkIssueMessage

====
